---- MODULE Spec2Model ----
(***************************************************************************)
(* Food_recipe_API: the recipe routes of src/routes/recipes.js over a      *)
(* PostgreSQL store.  Every request is one handler invocation; a write     *)
(* handler holds one pooled client whose statements run first-in first-out *)
(* inside BEGIN .. COMMIT/ROLLBACK, the per-line work of a request being   *)
(* started together (ingredients.map(async ...)) and joined by Promise.all.*)
(* The store is modelled at READ COMMITTED: a statement sees the committed *)
(* tables plus the writes of its own transaction.                          *)
(***************************************************************************)
EXTENDS Integers, Sequences, FiniteSets, Bags, TLC

\* ------------------------------------------------------------------ bounds
MaxRequests == 2        \* requests the clients send in one behaviour
MaxFaults == 1          \* storage errors injected in one behaviour

\* The handler invocations in flight at one time; a finished one makes room for
\* the next request.
Requests == {1, 2}

\* ------------------------------------------------------------------ inputs
Line(n, q, u) == [name |-> n, quantity |-> q, unit |-> u]

Body(t, c, ls) ==
    [title |-> t, instructions |-> t, imageUrl |-> t, categoryId |-> c, ingredients |-> ls]

\* Request bodies: no line (in either category), one line of a name the catalog
\* holds at the start, two new names in either order, one new name twice.
Bodies ==
    { Body("Tea", 1, <<>>),
      Body("Water", 2, <<>>),
      Body("Soup", 1, <<Line("Salt", 2, "tsp")>>),
      Body("Cake", 2, <<Line("Sugar", 1, "tsp"), Line("Flour", 2, "cup")>>),
      Body("Bread", 2, <<Line("Flour", 2, "cup"), Line("Sugar", 1, "tsp")>>),
      Body("Dough", 1, <<Line("Flour", 1, "tsp"), Line("Flour", 3, "cup")>>) }

\* Path parameters :id of the requests.
Ids == {1, 2}

\* The category ids of the requests.
Categories == {1, 2}

\* ------------------------------------------------------------------ state
VARIABLES
    recipes,             \* committed rows of table recipes
    ingredients,         \* committed rows of table ingredients
    recipe_ingredients,  \* committed rows of table recipe_ingredients (a bag)
    recipe_id_seq,       \* next value of the serial recipes.recipe_id
    ingredient_id_seq,   \* next value of the serial ingredients.ingredient_id
    now,                 \* the store's clock (CURRENT_TIMESTAMP)
    tx,                  \* per request: the transaction of its pooled client
    req,                 \* per request: the handler invocation
    started,             \* requests received so far
    faults,              \* storage errors injected so far
    tags,                \* committed rows of table tags
    tag_id_seq           \* next value of the serial tags.tag_id

tables == <<recipes, ingredients, recipe_ingredients>>
tagvars == <<tags, tag_id_seq>>
vars == <<recipes, ingredients, recipe_ingredients, recipe_id_seq, ingredient_id_seq,
          now, tx, req, started, faults, tags, tag_id_seq>>

\* ------------------------------------------------------------------ the store
RecipeRow(id, b, created, updated) ==
    [recipe_id |-> id, title |-> b.title, instructions |-> b.instructions,
     image_url |-> b.imageUrl, category_id |-> b.categoryId,
     created_at |-> created, updated_at |-> updated]

IngredientRow(id, n) == [ingredient_id |-> id, name |-> n]

LineRow(rid, iid, q, u) == [recipe_id |-> rid, ingredient_id |-> iid, quantity |-> q, unit |-> u]

\* A client with no open transaction (statements autocommit).
EmptyTx ==
    [state |-> "idle", start |-> 0, insRecipes |-> {}, updRecipes |-> {},
     delLines |-> EmptyBag, insLines |-> EmptyBag, insIngredients |-> {}]

\* What a statement of transaction t reads: the committed rows and t's own writes.
VisibleRecipes(t) ==
    {x \in recipes : \A u \in t.updRecipes : u.recipe_id # x.recipe_id}
        \cup t.updRecipes \cup t.insRecipes

VisibleIngredients(t) == ingredients \cup t.insIngredients

VisibleLines(t) == (recipe_ingredients (-) t.delLines) (+) t.insLines

LinesOf(lines, id) == {l \in BagToSet(lines) : l.recipe_id = id}

\* The sub-bag of lines holding the rows of recipe id.
LinesBagOf(lines, id) ==
    LET S == LinesOf(lines, id) IN [l \in S |-> CopiesIn(l, lines)]

\* recipe_ingredients.recipe_id REFERENCES recipes ON DELETE CASCADE: the lines
\* left when recipe id is deleted.
CascadeDelete(lines, id) == lines (-) LinesBagOf(lines, id)

\* Row and index locks are held by open transactions until COMMIT or ROLLBACK.
Open(q) == tx[q].state \in {"active", "aborted"}

\* A store in which UPDATE takes no row lock: no statement waits for the row.
RowNeverLocked(id, r, q) == FALSE

\* Request r must wait for q: q updated the recipe row r wants to write.
RowLockedBy(id, r, q) ==
    /\ q # r
    /\ Open(q)
    /\ \E u \in tx[q].updRecipes : u.recipe_id = id

\* Request r must wait for q before it deletes recipe id: q inserted an
\* ingredient line that references the recipe, which locks the referenced row's
\* key until q ends.
KeySharedBy(id, r, q) ==
    /\ q # r
    /\ Open(q)
    /\ \E l \in BagToSet(tx[q].insLines) : l.recipe_id = id

\* An index on ingredients(name) that is not unique: no insert waits.
NameNeverHeld(n, r, q) == FALSE

\* Request r must wait for q: q's uncommitted ingredient row holds the name in
\* the unique index of ingredients(name).
NameHeldBy(n, r, q) ==
    /\ q # r
    /\ Open(q)
    /\ \E i \in tx[q].insIngredients : i.name = n

\* ------------------------------------------------------------------ reads
\* SQL NULL, as it shows in a JSON answer.
Null == "null"

RECURSIVE Copies(_, _)
\* The number of rows of the bag lines that lie in the set S.
Copies(lines, S) ==
    IF S = {} THEN 0
    ELSE LET l == CHOOSE x \in S : TRUE IN CopiesIn(l, lines) + Copies(lines, S \ {l})

\* json_build_object('name', i.name, 'quantity', ri.quantity, 'unit', ri.unit) of
\* a line joined (LEFT JOIN) to its ingredient.
LineJson(l) ==
    LET I == {i \in ingredients : i.ingredient_id = l.ingredient_id} IN
    [name |-> IF I = {} THEN Null ELSE (CHOOSE i \in I : TRUE).name,
     quantity |-> l.quantity, unit |-> l.unit]

\* json_agg(...) over the lines of recipe id: a bag of objects.
AggLines(id) ==
    LET S == LinesOf(recipe_ingredients, id)
        O == {LineJson(l) : l \in S}
    IN [o \in O |-> Copies(recipe_ingredients, {l \in S : LineJson(l) = o})]

\* json_agg(...) over recipes LEFT JOIN recipe_ingredients LEFT JOIN ingredients:
\* a recipe without lines still yields one joined row, all of whose line columns
\* are NULL.
AggLeftJoin(id) ==
    IF LinesOf(recipe_ingredients, id) = {}
    THEN SetToBag({[name |-> Null, quantity |-> Null, unit |-> Null]})
    ELSE AggLines(id)

RecipeJson(x, agg) ==
    [recipe_id |-> x.recipe_id, title |-> x.title, instructions |-> x.instructions,
     image_url |-> x.image_url, category_id |-> x.category_id,
     created_at |-> x.created_at, updated_at |-> x.updated_at, ingredients |-> agg]

\* GetAllRows with JOIN in place of LEFT JOIN.
GetAllRowsInner ==
    {RecipeJson(x, AggLines(x.recipe_id)) :
        x \in {y \in recipes : LinesOf(recipe_ingredients, y.recipe_id) # {}}}

\* SELECT ... FROM recipes r LEFT JOIN ... GROUP BY r.recipe_id
GetAllRows == {RecipeJson(x, AggLeftJoin(x.recipe_id)) : x \in recipes}

\* GetByIdRows without WHERE r.recipe_id = $1.
GetByIdRowsAll(id) == GetAllRows

\* SELECT ... LEFT JOIN ... WHERE r.recipe_id = $1 GROUP BY r.recipe_id
GetByIdRows(id) == {j \in GetAllRows : j.recipe_id = id}

\* GetByCategoryRows without WHERE r.category_id = $1.
GetByCategoryRowsAll(c) ==
    {RecipeJson(x, AggLines(x.recipe_id)) :
        x \in {y \in recipes : LinesOf(recipe_ingredients, y.recipe_id) # {}}}

\* SELECT ... FROM recipes r JOIN recipe_ingredients ri ... JOIN ingredients i ...
\* WHERE r.category_id = $1 GROUP BY r.recipe_id
GetByCategoryRows(c) ==
    {RecipeJson(x, AggLines(x.recipe_id)) :
        x \in {y \in recipes : /\ y.category_id = c
                               /\ \E l \in LinesOf(recipe_ingredients, y.recipe_id) :
                                    \E i \in ingredients : i.ingredient_id = l.ingredient_id}}

\* ------------------------------------------------------------------ the handler
NoBody == Body("", 0, <<>>)

\* An element of the ingredients array that is null, and the test the
\* destructuring of a line makes of it.
NullLine == [name |-> Null, quantity |-> 0, unit |-> Null]

IsNullLine(l) == l.name = Null

\* Request bodies no handler validates: an empty title with a line of quantity
\* 0, a null element before a line, and two lines of names the catalog holds.
AnomalyBodies ==
    { Body("", 1, <<Line("Salt", 0, "tsp")>>),
      Body("Mix", 1, <<NullLine, Line("Salt", 2, "tsp")>>),
      Body("Hash", 1, <<Line("Pepper", 1, "tsp"), Line("Salt", 3, "tsp")>>) }

\* A request that has not arrived yet.  rowCount is result.rowCount of the
\* UPDATE or DELETE on recipes (-1 before the answer); inserted holds the
\* ingredient_id values the request's INSERT INTO ingredients returned.
NoReq ==
    [op |-> "none", id |-> 0, body |-> NoBody, phase |-> "idle", client |-> "none",
     releases |-> 0, queue |-> <<>>, task |-> <<>>, ingId |-> <<>>, recipeId |-> 0,
     rowCount |-> -1, inserted |-> {}, err |-> "", res |-> <<>>]

Stmt(k, i) == [kind |-> k, line |-> i]

Enq(h, s) == [h EXCEPT !.queue = Append(@, s)]

\* res.status(code).json(body): every call is recorded; the first one is what
\* the client receives.
Send(h, code, body) == [h EXCEPT !.res = Append(@, [status |-> code, body |-> body])]

\* A handler without the finally block: the client is never released.
FinallyKeepsClient(h) == [h EXCEPT !.phase = "done"]

\* finally { if (client) client.release(); }
Finally(h) ==
    IF h.client = "held"
    THEN [h EXCEPT !.client = "released", !.releases = @ + 1, !.phase = "done"]
    ELSE [h EXCEPT !.phase = "done"]

\* The error-handling middleware of the application.
ErrorHandler(h) == Send(h, 500, [error |-> h.err])

\* What the catch block of a write handler does once ROLLBACK was answered (or
\* was not needed): forward the error, and in create also answer 500.
AfterRollback(h) ==
    IF h.op = "create"
    THEN Finally(Send(ErrorHandler(h), 500, [error |-> "Internal Server Error"]))
    ELSE Finally(ErrorHandler(h))

\* The catch block of a write handler, entered with error message m.
Catch(h, m) ==
    LET e == [h EXCEPT !.err = m] IN
    IF e.client = "held"
    THEN Enq([e EXCEPT !.phase = "rollback"], Stmt("ROLLBACK", 0))
    ELSE AfterRollback(e)

\* The promise of line k rejects with m.  Promise.all rejects on the first
\* rejection only; later ones are ignored.
Reject(h, k, m) ==
    LET e == [h EXCEPT !.task[k] = "rejected"] IN
    IF h.phase = "lines" THEN Catch(e, m) ELSE e

\* A join that resolves as soon as one line is done (Promise.any in place of
\* Promise.all).
AllSettledAny(h) ==
    IF h.phase = "lines" /\ \E k \in DOMAIN h.task : h.task[k] = "ok"
    THEN Enq([h EXCEPT !.phase = "commit"], Stmt("COMMIT", 0))
    ELSE h

\* await Promise.all(ingredientPromises); await client.query("COMMIT")
AllSettled(h) ==
    IF h.phase = "lines" /\ \A k \in DOMAIN h.task : h.task[k] = "ok"
    THEN Enq([h EXCEPT !.phase = "commit"], Stmt("COMMIT", 0))
    ELSE h

RECURSIVE EnqAll(_, _, _)
EnqAll(q, ls, k) ==
    IF k > Len(ls) THEN q
    ELSE EnqAll(IF IsNullLine(ls[k]) THEN q ELSE Append(q, Stmt("INSERT_INGREDIENT", k)),
                ls, k + 1)

\* ingredients.map(async (ingredient) => ...): every line's function runs up to
\* its first await, which queues its INSERT INTO ingredients; the function of a
\* null element throws at const { name, quantity, unit } = ingredient, and
\* Promise.all then rejects when the other functions have queued theirs.
MapLines(h) ==
    LET ls == h.body.ingredients
        n == Len(ls)
        m == [h EXCEPT !.phase = "lines",
                       !.task = [k \in 1..n |-> IF IsNullLine(ls[k]) THEN "rejected" ELSE "ins"],
                       !.ingId = [k \in 1..n |-> 0],
                       !.queue = EnqAll(@, ls, 1)]
    IN IF \E k \in 1..n : IsNullLine(ls[k])
       THEN Catch(m, "TypeError: ingredient is null")
       ELSE AllSettled(m)

\* ------------------------------------------------------------------ statements
\* A storage error may strike any statement, MaxFaults times in a behaviour.
FaultChoices == IF faults < MaxFaults THEN {FALSE, TRUE} ELSE {FALSE}

Ready(r, k) == req[r].queue # <<>> /\ Head(req[r].queue).kind = k

\* The handler of r once the answer to the head of its client's queue arrived.
Popped(r) == [req[r] EXCEPT !.queue = Tail(@)]

\* The timestamp a statement of r's client reads from CURRENT_TIMESTAMP.
Timestamp(r) == IF tx[r].state = "idle" THEN now ELSE tx[r].start

\* DbStep with every statement sent through the pool instead of the client
\* that holds the transaction: its writes are committed at once.
DbStepAutocommit(r, ok, t) ==
    /\ tx' = tx
    /\ IF ok
       THEN /\ recipes' = VisibleRecipes(t)
            /\ ingredients' = VisibleIngredients(t)
            /\ recipe_ingredients' = VisibleLines(t)
       ELSE UNCHANGED tables

\* The store's side of a data statement of r that ended ok (leaving r's
\* transaction as t) or in an error.  Outside BEGIN..COMMIT it autocommits; an
\* error inside a transaction aborts the transaction.
DbStep(r, ok, t) ==
    IF tx[r].state = "idle"
    THEN /\ tx' = tx
         /\ IF ok
            THEN /\ recipes' = VisibleRecipes(t)
                 /\ ingredients' = VisibleIngredients(t)
                 /\ recipe_ingredients' = VisibleLines(t)
            ELSE UNCHANGED tables
    ELSE /\ UNCHANGED tables
         /\ tx' = [tx EXCEPT ![r] = IF ok THEN t ELSE [@ EXCEPT !.state = "aborted"]]

\* The error a data statement of r ends in, "" when it runs.
StmtError(r, fault) ==
    IF tx[r].state = "aborted" THEN "current transaction is aborted"
    ELSE IF fault THEN "storage error"
    ELSE ""

\* client.query("BEGIN")
ExecBegin(r) ==
    /\ Ready(r, "BEGIN")
    /\ \E fault \in FaultChoices :
        IF fault
        THEN /\ faults' = faults + 1
             /\ req' = [req EXCEPT ![r] = Catch(Popped(r), "storage error")]
             /\ UNCHANGED <<tables, tx, now>>
        ELSE /\ now' = now + 1
             /\ tx' = [tx EXCEPT ![r] = [EmptyTx EXCEPT !.state = "active", !.start = now + 1]]
             /\ req' = [req EXCEPT ![r] =
                    Enq([Popped(r) EXCEPT !.phase = "recipe"],
                        Stmt(IF req[r].op = "create" THEN "INSERT_RECIPE" ELSE "UPDATE_RECIPE", 0))]
             /\ UNCHANGED <<tables, faults>>
    /\ UNCHANGED <<recipe_id_seq, ingredient_id_seq, started>>
    /\ UNCHANGED tagvars

\* The recipe_id of an INSERT INTO recipes whose column is filled with
\* max(recipe_id) + 1 of the rows the statement sees, not from the sequence.
NextRecipeIdMax(t) ==
    IF VisibleRecipes(t) = {} THEN 1
    ELSE (CHOOSE x \in VisibleRecipes(t) :
              \A y \in VisibleRecipes(t) : y.recipe_id <= x.recipe_id).recipe_id + 1

\* The recipe_id RETURNING gives for the row INSERT INTO recipes adds: the
\* column's default, the next value of its sequence.
NextRecipeId(t) == recipe_id_seq

\* INSERT INTO recipes (title, instructions, image_url, category_id)
\* VALUES ($1, $2, $3, $4) RETURNING recipe_id
ExecInsertRecipe(r) ==
    /\ Ready(r, "INSERT_RECIPE")
    /\ \E fault \in FaultChoices :
        LET e == StmtError(r, fault)
            row == RecipeRow(NextRecipeId(tx[r]), req[r].body, Timestamp(r), Timestamp(r))
            t == [tx[r] EXCEPT !.insRecipes = @ \cup {row}]
        IN  /\ fault => tx[r].state # "aborted"
            /\ faults' = IF fault THEN faults + 1 ELSE faults
            /\ DbStep(r, e = "", t)
            /\ recipe_id_seq' = IF e = "" THEN recipe_id_seq + 1 ELSE recipe_id_seq
            /\ req' = [req EXCEPT ![r] =
                    IF e = ""
                    THEN MapLines([Popped(r) EXCEPT !.recipeId = row.recipe_id])
                    ELSE Catch(Popped(r), e)]
    /\ UNCHANGED <<ingredient_id_seq, now, started>>
    /\ UNCHANGED tagvars

\* UPDATE recipes SET title = $1, instructions = $2, image_url = $3,
\* category_id = $4, updated_at = CURRENT_TIMESTAMP WHERE recipe_id = $5
\* The new versions of the rows the statement matches.
UpdatedRecipes(t, id, b, ts) ==
    {RecipeRow(x.recipe_id, b, x.created_at, ts) : x \in {y \in VisibleRecipes(t) : y.recipe_id = id}}

\* AfterUpdateRecipe without the test of the list: the lines are always deleted.
AfterUpdateRecipeAlwaysDelete(h) ==
    Enq([h EXCEPT !.phase = "dellines"], Stmt("DELETE_LINES", 0))

\* if (ingredients && ingredients.length > 0) { DELETE ...; lines } COMMIT
AfterUpdateRecipe(h) ==
    IF Len(h.body.ingredients) > 0
    THEN Enq([h EXCEPT !.phase = "dellines"], Stmt("DELETE_LINES", 0))
    ELSE Enq([h EXCEPT !.phase = "commit"], Stmt("COMMIT", 0))

\* ExecUpdateRecipe sent with pool.query: the row is changed outside the
\* transaction of the request.
ExecUpdateRecipeByPool(r) ==
    /\ Ready(r, "UPDATE_RECIPE")
    /\ LET new == UpdatedRecipes(EmptyTx, req[r].id, req[r].body, now) IN
       /\ recipes' = {x \in recipes : x.recipe_id # req[r].id} \cup new
       /\ req' = [req EXCEPT ![r] =
              AfterUpdateRecipe([Popped(r) EXCEPT !.rowCount = Cardinality(new)])]
    /\ UNCHANGED <<ingredients, recipe_ingredients, recipe_id_seq, ingredient_id_seq,
                   now, tx, started, faults>>
    /\ UNCHANGED tagvars

ExecUpdateRecipe(r) ==
    /\ Ready(r, "UPDATE_RECIPE")
    \* the update waits while another open transaction holds the row
    /\ tx[r].state = "aborted" \/ \A q \in Requests : ~RowLockedBy(req[r].id, r, q)
    /\ \E fault \in FaultChoices :
        LET e == StmtError(r, fault)
            new == UpdatedRecipes(tx[r], req[r].id, req[r].body, Timestamp(r))
            t == [tx[r] EXCEPT
                    !.updRecipes = {u \in @ : u.recipe_id # req[r].id} \cup new]
        IN  /\ fault => tx[r].state # "aborted"
            /\ faults' = IF fault THEN faults + 1 ELSE faults
            /\ DbStep(r, e = "", t)
            /\ req' = [req EXCEPT ![r] =
                    IF e = ""
                    THEN AfterUpdateRecipe([Popped(r) EXCEPT !.rowCount = Cardinality(new)])
                    ELSE Catch(Popped(r), e)]
    /\ UNCHANGED <<recipe_id_seq, ingredient_id_seq, now, started>>
    /\ UNCHANGED tagvars

\* DeletedLines of DELETE FROM recipe_ingredients without WHERE recipe_id = $1.
DeletedLinesAll(t, id) ==
    [t EXCEPT !.delLines = @ (+) (recipe_ingredients (-) @),
              !.insLines = EmptyBag]

\* DELETE FROM recipe_ingredients WHERE recipe_id = $1
DeletedLines(t, id) ==
    [t EXCEPT !.delLines = @ (+) LinesBagOf(recipe_ingredients (-) @, id),
              !.insLines = @ (-) LinesBagOf(@, id)]

ExecDeleteLines(r) ==
    /\ Ready(r, "DELETE_LINES")
    /\ \E fault \in FaultChoices :
        LET e == StmtError(r, fault) IN
        /\ fault => tx[r].state # "aborted"
        /\ faults' = IF fault THEN faults + 1 ELSE faults
        /\ DbStep(r, e = "", DeletedLines(tx[r], req[r].id))
        /\ req' = [req EXCEPT ![r] =
                IF e = "" THEN MapLines(Popped(r)) ELSE Catch(Popped(r), e)]
    /\ UNCHANGED <<recipe_id_seq, ingredient_id_seq, now, started>>
    /\ UNCHANGED tagvars

\* HeadLine of line functions that all read the first element of the array.
HeadLineFirst(r) == req[r].body.ingredients[1]

\* The input line the head statement of r's queue belongs to.
HeadLine(r) == req[r].body.ingredients[Head(req[r].queue).line]

\* The recipe the lines of r are written for: the inserted one (create) or :id.
TargetRecipe(h) == IF h.op = "create" THEN h.recipeId ELSE h.id

\* INSERT INTO ingredients (name) VALUES ($1)
\* ON CONFLICT (name) DO NOTHING RETURNING ingredient_id
\* The rows returned: the new row's id, or none when the name is present.
\* (InsertIngredientRowsPlain: the insert without ON CONFLICT (name) DO NOTHING.)
InsertIngredientRowsPlain(t, n, id) == <<id>>

InsertIngredientRows(t, n, id) ==
    IF \E i \in VisibleIngredients(t) : i.name = n THEN <<>> ELSE <<id>>

ExecInsertIngredient(r) ==
    /\ Ready(r, "INSERT_INGREDIENT")
    /\ LET k == Head(req[r].queue).line
           n == HeadLine(r).name
       IN
       \* the insert waits while another open transaction holds the name
       /\ tx[r].state = "aborted" \/ \A q \in Requests : ~NameHeldBy(n, r, q)
       /\ \E fault \in FaultChoices :
           LET e == StmtError(r, fault)
               rows == InsertIngredientRows(tx[r], n, ingredient_id_seq)
               t == IF rows = <<>> THEN tx[r]
                    ELSE [tx[r] EXCEPT !.insIngredients =
                              @ \cup {IngredientRow(ingredient_id_seq, n)}]
               h == Popped(r)
           IN  /\ fault => tx[r].state # "aborted"
               /\ faults' = IF fault THEN faults + 1 ELSE faults
               /\ DbStep(r, e = "", t)
               /\ ingredient_id_seq' =
                      IF e = "" /\ rows # <<>> THEN ingredient_id_seq + 1 ELSE ingredient_id_seq
               /\ req' = [req EXCEPT ![r] =
                      IF e # "" THEN Reject(h, k, e)
                      ELSE IF Len(rows) > 0
                      THEN Enq([h EXCEPT !.task[k] = "join", !.ingId[k] = rows[1],
                                         !.inserted = @ \cup {rows[1]}],
                               Stmt("INSERT_RECIPE_INGREDIENT", k))
                      ELSE Enq([h EXCEPT !.task[k] = "sel"], Stmt("SELECT_INGREDIENT", k))]
    /\ UNCHANGED <<recipe_id_seq, now, started>>
    /\ UNCHANGED tagvars

\* Request r waits for q to end: r's INSERT INTO ingredients meets q's
\* uncommitted row of the same name.
WaitsFor(r, q) ==
    /\ Ready(r, "INSERT_INGREDIENT")
    /\ tx[r].state # "aborted"
    /\ NameHeldBy(HeadLine(r).name, r, q)

\* Two transactions wait for each other: the store ends the wait of one of them
\* with the error "deadlock detected".
DeadlockInsertIngredient(r) ==
    /\ \E q \in Requests : WaitsFor(r, q) /\ WaitsFor(q, r)
    /\ DbStep(r, FALSE, tx[r])
    /\ req' = [req EXCEPT ![r] = Reject(Popped(r), Head(req[r].queue).line, "deadlock detected")]
    /\ UNCHANGED <<recipe_id_seq, ingredient_id_seq, now, started, faults>>
    /\ UNCHANGED tagvars

\* SelectIngredientRows without WHERE name = $1.
SelectIngredientRowsAny(t, n) == VisibleIngredients(t)

\* SELECT ingredient_id FROM ingredients WHERE name = $1
SelectIngredientRows(t, n) == {i \in VisibleIngredients(t) : i.name = n}

ExecSelectIngredient(r) ==
    /\ Ready(r, "SELECT_INGREDIENT")
    /\ LET k == Head(req[r].queue).line
           n == HeadLine(r).name
       IN
       \E fault \in FaultChoices :
           LET e == StmtError(r, fault)
               rows == SelectIngredientRows(tx[r], n)
               h == Popped(r)
           IN  /\ fault => tx[r].state # "aborted"
               /\ faults' = IF fault THEN faults + 1 ELSE faults
               /\ DbStep(r, e = "", tx[r])
               /\ req' = [req EXCEPT ![r] =
                      IF e # "" THEN Reject(h, k, e)
                      \* existingIngredientRows[0].ingredient_id
                      ELSE IF rows = {} THEN Reject(h, k, "TypeError")
                      ELSE Enq([h EXCEPT !.task[k] = "join",
                                         !.ingId[k] = (CHOOSE i \in rows : TRUE).ingredient_id],
                               Stmt("INSERT_RECIPE_INGREDIENT", k))]
    /\ UNCHANGED <<recipe_id_seq, ingredient_id_seq, now, started>>
    /\ UNCHANGED tagvars

\* recipe_ingredients without its foreign keys: any identifiers are accepted.
ForeignKeysIgnored(t, row) == TRUE

\* The foreign keys of recipe_ingredients: both referenced rows must exist.
ForeignKeysHold(t, row) ==
    /\ \E x \in VisibleRecipes(t) : x.recipe_id = row.recipe_id
    /\ \E i \in VisibleIngredients(t) : i.ingredient_id = row.ingredient_id

\* INSERT INTO recipe_ingredients (recipe_id, ingredient_id, quantity, unit)
\* VALUES ($1, $2, $3, $4)
ExecInsertRecipeIngredient(r) ==
    /\ Ready(r, "INSERT_RECIPE_INGREDIENT")
    /\ LET k == Head(req[r].queue).line
           l == HeadLine(r)
           h == Popped(r)
           row == LineRow(TargetRecipe(h), h.ingId[k], l.quantity, l.unit)
       IN
       \E fault \in FaultChoices :
           LET e0 == StmtError(r, fault)
               e == IF e0 = "" /\ ~ForeignKeysHold(tx[r], row)
                    THEN "violates foreign key constraint" ELSE e0
               t == [tx[r] EXCEPT !.insLines = @ (+) SetToBag({row})]
           IN  /\ fault => tx[r].state # "aborted"
               /\ faults' = IF fault THEN faults + 1 ELSE faults
               /\ DbStep(r, e = "", t)
               /\ req' = [req EXCEPT ![r] =
                      IF e # "" THEN Reject(h, k, e)
                      ELSE AllSettled([h EXCEPT !.task[k] = "ok"])]
    /\ UNCHANGED <<recipe_id_seq, ingredient_id_seq, now, started>>
    /\ UNCHANGED tagvars

\* client.query("COMMIT")
ExecCommit(r) ==
    /\ Ready(r, "COMMIT")
    /\ \E fault \in FaultChoices :
        LET h == Popped(r) IN
        /\ faults' = IF fault THEN faults + 1 ELSE faults
        /\ tx' = [tx EXCEPT ![r] = EmptyTx]
        /\ IF ~fault /\ tx[r].state = "active"
           THEN /\ recipes' = VisibleRecipes(tx[r])
                /\ ingredients' = VisibleIngredients(tx[r])
                /\ recipe_ingredients' = VisibleLines(tx[r])
           ELSE UNCHANGED tables
        /\ req' = [req EXCEPT ![r] =
               IF fault THEN Catch(h, "storage error")
               ELSE IF h.op = "create"
               THEN Finally(Send(h, 201, [recipeId |-> h.recipeId]))
               ELSE Finally(Send(h, 200,
                        [message |-> "Recipe and ingredients updated successfully"]))]
    /\ UNCHANGED <<recipe_id_seq, ingredient_id_seq, now, started>>
    /\ UNCHANGED tagvars

\* client.query("ROLLBACK")
ExecRollback(r) ==
    /\ Ready(r, "ROLLBACK")
    /\ \E fault \in FaultChoices :
        LET h == Popped(r) IN
        /\ faults' = IF fault THEN faults + 1 ELSE faults
        /\ tx' = [tx EXCEPT ![r] = EmptyTx]
        /\ req' = [req EXCEPT ![r] = IF fault THEN Finally(h) ELSE AfterRollback(h)]
    /\ UNCHANGED <<tables, recipe_id_seq, ingredient_id_seq, now, started>>
    /\ UNCHANGED tagvars

\* ------------------------------------------------------------------ requests
\* An invocation that is over and whose client has nothing queued.
Free(r) == req[r].phase \in {"idle", "done"} /\ req[r].queue = <<>>

\* A request arrives and is handled by the first free invocation.
Arrives(r) ==
    /\ started < MaxRequests
    /\ Free(r)
    /\ \A q \in Requests : q < r => ~Free(q)
    /\ started' = started + 1

\* client = await pool.connect(): the handler holds a client and has queued BEGIN,
\* or the pool rejected and the catch block runs without a client.
Connect(h, fault) ==
    IF fault THEN Catch(h, "storage error")
    ELSE Enq([h EXCEPT !.client = "held", !.phase = "begin"], Stmt("BEGIN", 0))

\* POST /recipes
StartCreate(r, b) ==
    /\ Arrives(r)
    /\ \E fault \in FaultChoices :
        /\ faults' = IF fault THEN faults + 1 ELSE faults
        /\ req' = [req EXCEPT ![r] = Connect([NoReq EXCEPT !.op = "create", !.body = b], fault)]
    /\ UNCHANGED <<tables, recipe_id_seq, ingredient_id_seq, now, tx>>
    /\ UNCHANGED tagvars

\* PUT /recipes/:id
StartUpdate(r, id, b) ==
    /\ Arrives(r)
    /\ \E fault \in FaultChoices :
        /\ faults' = IF fault THEN faults + 1 ELSE faults
        /\ req' = [req EXCEPT ![r] =
               Connect([NoReq EXCEPT !.op = "update", !.id = id, !.body = b], fault)]
    /\ UNCHANGED <<tables, recipe_id_seq, ingredient_id_seq, now, tx>>
    /\ UNCHANGED tagvars

\* DELETE /recipes/:id: pool.query(deleteQuery, [id]) is sent.
StartDelete(r, id) ==
    /\ Arrives(r)
    /\ req' = [req EXCEPT ![r] =
           Enq([NoReq EXCEPT !.op = "delete", !.id = id, !.phase = "query"],
               Stmt("DELETE_RECIPE", 0))]
    /\ UNCHANGED <<tables, recipe_id_seq, ingredient_id_seq, now, tx, faults>>
    /\ UNCHANGED tagvars

\* catch (error) { next(error); return res.status(500).json(...) } of the
\* handlers that use pool.query.
CatchQuery(h, m) ==
    [Send(ErrorHandler([h EXCEPT !.err = m]), 500, [error |-> "Internal Server Error"])
        EXCEPT !.phase = "done"]

\* RecipesAfterDelete of a statement that removes no recipe row.
RecipesAfterDeleteNone(id) == recipes

\* DELETE FROM recipes WHERE recipe_id = $1: the rows left in recipes.
RecipesAfterDelete(id) == {x \in recipes : x.recipe_id # id}

\* DeleteAnswer without the test of result.rowCount.
DeleteAnswerAlwaysOk(h, rowCount) ==
    Send([h EXCEPT !.rowCount = rowCount], 200, [message |-> "Recipe deleted successfully"])

\* A delete that also removes the ingredient rows only the deleted recipe used.
IngredientsAfterDeleteUnused(id) ==
    {i \in ingredients :
        \E l \in BagToSet(recipe_ingredients) :
            l.ingredient_id = i.ingredient_id /\ l.recipe_id # id}

\* The ingredient rows after DELETE FROM recipes WHERE recipe_id = $1: the
\* statement names recipes only, the catalog of ingredients is left as it is.
IngredientsAfterDelete(id) == ingredients

\* if (result.rowCount === 0) 404 else 200
DeleteAnswer(h, rowCount) ==
    IF rowCount = 0
    THEN Send([h EXCEPT !.rowCount = rowCount], 404, [error |-> "Recipe not found"])
    ELSE Send([h EXCEPT !.rowCount = rowCount], 200, [message |-> "Recipe deleted successfully"])

ExecDeleteRecipe(r) ==
    /\ Ready(r, "DELETE_RECIPE")
    \* the delete waits while an open transaction holds the row or its key
    /\ \A q \in Requests : ~RowLockedBy(req[r].id, r, q) /\ ~KeySharedBy(req[r].id, r, q)
    /\ \E fault \in FaultChoices :
        LET h == Popped(r)
            rowCount == Cardinality({x \in recipes : x.recipe_id = h.id})
        IN  /\ faults' = IF fault THEN faults + 1 ELSE faults
            /\ IF fault
               THEN UNCHANGED tables
               ELSE /\ recipes' = RecipesAfterDelete(h.id)
                    /\ recipe_ingredients' = CascadeDelete(recipe_ingredients, h.id)
                    /\ ingredients' = IngredientsAfterDelete(h.id)
            /\ req' = [req EXCEPT ![r] =
                   IF fault THEN CatchQuery(h, "storage error")
                   ELSE [DeleteAnswer(h, rowCount) EXCEPT !.phase = "done"]]
    /\ UNCHANGED <<recipe_id_seq, ingredient_id_seq, now, tx, started>>
    /\ UNCHANGED tagvars

\* GET /recipes.  The catch block names err, which is not defined there: the
\* ReferenceError leaves the handler before any answer is written.
GetAll(r) ==
    /\ Arrives(r)
    /\ \E fault \in FaultChoices :
        LET h == [NoReq EXCEPT !.op = "getAll", !.phase = "done"] IN
        /\ faults' = IF fault THEN faults + 1 ELSE faults
        /\ req' = [req EXCEPT ![r] =
               IF fault THEN [h EXCEPT !.err = "ReferenceError"]
               ELSE Send(h, 200, GetAllRows)]
    /\ UNCHANGED <<tables, recipe_id_seq, ingredient_id_seq, now, tx>>
    /\ UNCHANGED tagvars

\* GetById as a read that also writes the row it returns.
GetByIdTouching(r, id) ==
    /\ Arrives(r)
    /\ req' = [req EXCEPT ![r] =
           Send([NoReq EXCEPT !.op = "getById", !.id = id, !.phase = "done"],
                200, GetByIdRows(id))]
    /\ recipes' = {IF x.recipe_id = id THEN [x EXCEPT !.updated_at = now + 1] ELSE x :
                      x \in recipes}
    /\ UNCHANGED <<ingredients, recipe_ingredients, recipe_id_seq, ingredient_id_seq,
                   now, tx, faults>>
    /\ UNCHANGED tagvars

\* GET /recipes/:id
GetById(r, id) ==
    /\ Arrives(r)
    /\ \E fault \in FaultChoices :
        LET h == [NoReq EXCEPT !.op = "getById", !.id = id, !.phase = "done"]
            rows == GetByIdRows(id)
        IN
        /\ faults' = IF fault THEN faults + 1 ELSE faults
        /\ req' = [req EXCEPT ![r] =
               IF fault THEN CatchQuery(h, "storage error")
               ELSE IF rows = {} THEN Send(h, 404, [error |-> "Recipe not found"])
               ELSE Send(h, 200, CHOOSE j \in rows : TRUE)]
    /\ UNCHANGED <<tables, recipe_id_seq, ingredient_id_seq, now, tx>>
    /\ UNCHANGED tagvars

\* GET /recipes/category/:id
GetByCategory(r, c) ==
    /\ Arrives(r)
    /\ \E fault \in FaultChoices :
        LET h == [NoReq EXCEPT !.op = "getByCategory", !.id = c, !.phase = "done"]
            rows == GetByCategoryRows(c)
        IN
        /\ faults' = IF fault THEN faults + 1 ELSE faults
        /\ req' = [req EXCEPT ![r] =
               IF fault THEN CatchQuery(h, "storage error")
               ELSE IF rows = {}
               THEN Send(h, 404, [error |-> "No recipes found for this category"])
               ELSE Send(h, 200, rows)]
    /\ UNCHANGED <<tables, recipe_id_seq, ingredient_id_seq, now, tx>>
    /\ UNCHANGED tagvars

\* ------------------------------------------------------------------ specification
\* The service starts on a store that holds one recipe, "Stew" with a line of
\* Salt, written by an earlier create.
Init ==
    /\ recipes = {RecipeRow(1, Body("Stew", 1, <<>>), 0, 0)}
    /\ ingredients = {IngredientRow(1, "Salt")}
    /\ recipe_ingredients = SetToBag({LineRow(1, 1, 1, "tsp")})
    /\ recipe_id_seq = 2
    /\ ingredient_id_seq = 2
    /\ now = 0
    /\ started = 0
    /\ tx = [r \in Requests |-> EmptyTx]
    /\ req = [r \in Requests |-> NoReq]
    /\ faults = 0
    /\ tags = {[tag_id |-> 1, name |-> "vegan"], [tag_id |-> 2, name |-> "spicy"]}
    /\ tag_id_seq = 3

Next ==
    \/ \E r \in Requests, b \in Bodies : StartCreate(r, b)
    \/ \E r \in Requests, id \in Ids, b \in Bodies : StartUpdate(r, id, b)
    \/ \E r \in Requests, id \in Ids : StartDelete(r, id)
    \/ \E r \in Requests : GetAll(r)
    \/ \E r \in Requests, id \in Ids : GetById(r, id)
    \/ \E r \in Requests, c \in Categories : GetByCategory(r, c)
    \/ \E r \in Requests : ExecBegin(r)
    \/ \E r \in Requests : ExecUpdateRecipe(r)
    \/ \E r \in Requests : ExecDeleteLines(r)
    \/ \E r \in Requests : ExecDeleteRecipe(r)
    \/ \E r \in Requests : ExecInsertRecipe(r)
    \/ \E r \in Requests : ExecInsertIngredient(r)
    \/ \E r \in Requests : DeadlockInsertIngredient(r)
    \/ \E r \in Requests : ExecSelectIngredient(r)
    \/ \E r \in Requests : ExecInsertRecipeIngredient(r)
    \/ \E r \in Requests : ExecCommit(r)
    \/ \E r \in Requests : ExecRollback(r)

Spec == Init /\ [][Next]_vars

\* ------------------------------------------------------------------ anomalies
\* DELETE /ingredients/:id of the ingredients router: a catalog row that no
\* committed or pending ingredient line references is removed.
DeleteIngredient(id) ==
    /\ \E i \in ingredients : i.ingredient_id = id
    /\ \A l \in BagToSet(recipe_ingredients) : l.ingredient_id # id
    /\ \A q \in Requests :
          Open(q) => \A l \in BagToSet(tx[q].insLines) : l.ingredient_id # id
    /\ ingredients' = {i \in ingredients : i.ingredient_id # id}
    /\ UNCHANGED <<recipes, recipe_ingredients, recipe_id_seq, ingredient_id_seq,
                   now, tx, req, started, faults>>
    /\ UNCHANGED tagvars

\* The service starts on the store of Init, whose catalog also holds Pepper,
\* an ingredient that no recipe uses any more; the store answers every statement.
InitAnomaly ==
    /\ recipes = {RecipeRow(1, Body("Stew", 1, <<>>), 0, 0)}
    /\ ingredients = {IngredientRow(1, "Salt"), IngredientRow(2, "Pepper")}
    /\ recipe_ingredients = SetToBag({LineRow(1, 1, 1, "tsp")})
    /\ recipe_id_seq = 2
    /\ ingredient_id_seq = 3
    /\ now = 0
    /\ started = 0
    /\ tx = [r \in Requests |-> EmptyTx]
    /\ req = [r \in Requests |-> NoReq]
    /\ faults = MaxFaults
    /\ tags = {[tag_id |-> 1, name |-> "vegan"], [tag_id |-> 2, name |-> "spicy"]}
    /\ tag_id_seq = 3

\* Writes with bodies that the handlers do not validate, while the ingredients
\* router removes catalog rows.
NextAnomaly ==
    \/ \E r \in Requests, b \in AnomalyBodies : StartCreate(r, b)
    \/ \E r \in Requests, id \in Ids, b \in AnomalyBodies : StartUpdate(r, id, b)
    \/ \E id \in Ids : DeleteIngredient(id)
    \/ \E r \in Requests : ExecBegin(r)
    \/ \E r \in Requests : ExecUpdateRecipe(r)
    \/ \E r \in Requests : ExecDeleteLines(r)
    \/ \E r \in Requests : ExecInsertRecipe(r)
    \/ \E r \in Requests : ExecInsertIngredient(r)
    \/ \E r \in Requests : ExecSelectIngredient(r)
    \/ \E r \in Requests : ExecInsertRecipeIngredient(r)
    \/ \E r \in Requests : ExecCommit(r)
    \/ \E r \in Requests : ExecRollback(r)

SpecAnomaly == InitAnomaly /\ [][NextAnomaly]_vars

\* ------------------------------------------------------------------ properties
\* The status of the response the client receives (the first one written), 0
\* when none was written.
Status(h) == IF Len(h.res) = 0 THEN 0 ELSE h.res[1].status

\* This step is the one in which request r ends.
Finishes(r) == req[r].phase \notin {"idle", "done"} /\ req'[r].phase = "done"

\* The lines of a request body and the lines a read returns, as sets of
\* (name, quantity, unit) objects.
InputTriples(b) == {b.ingredients[k] : k \in DOMAIN b.ingredients}

ReadTriples(rows) == UNION {BagToSet(j.ingredients) : j \in rows}

SameTriple(a, b) == a.name = b.name /\ a.unit = b.unit /\ a.quantity = b.quantity

SameTriples(A, B) ==
    /\ \A a \in A : \E b \in B : SameTriple(a, b)
    /\ \A b \in B : \E a \in A : SameTriple(a, b)

\* C1: a create that failed after its recipe row was inserted leaves, once the
\* request is over, no recipe row with that id, no ingredient line of it and no
\* ingredient row it inserted; get-by-id for the id finds nothing.
C1_CreateAtomic ==
    \A r \in Requests :
        (req[r].op = "create" /\ req[r].phase = "done" /\ req[r].recipeId # 0
            /\ req[r].err # "")
        => /\ \A x \in recipes : x.recipe_id # req[r].recipeId
           /\ LinesOf(recipe_ingredients, req[r].recipeId) = {}
           /\ \A i \in ingredients : i.ingredient_id \notin req[r].inserted
           /\ GetByIdRows(req[r].recipeId) = {}
           /\ tx[r] = EmptyTx

\* A create has failed after it inserted its recipe row and a new ingredient row.
C1_Witness ==
    \E r \in Requests :
        /\ req[r].op = "create" /\ req[r].phase = "done" /\ req[r].err # ""
        /\ req[r].recipeId # 0 /\ req[r].inserted # {}

C3_OneRowPerName ==
    \A i, j \in ingredients : i.name = j.name => i = j

\* Two overlapping writes have both committed, and a line of one resolved to the
\* ingredient row the other inserted.
C3_Witness ==
    \E r, q \in Requests :
        /\ r # q
        /\ req[r].phase = "done" /\ req[r].err = "" /\ req[r].inserted # {}
        /\ req[q].phase = "done" /\ req[q].err = "" /\ req[q].op \in {"create", "update"}
        /\ \E k \in DOMAIN req[q].ingId : req[q].ingId[k] \in req[r].inserted

\* C4: a resolved line carries the id of the one ingredient row of its name that
\* the transaction sees, and committed lines of the same ingredient name carry
\* the same ingredient id.
C4_ResolverReturnsTheRow ==
    /\ \A r \in Requests : \A k \in DOMAIN req[r].task :
          (/\ req[r].task[k] \in {"join", "ok"}
           /\ tx[r].state = "active" \/ (req[r].phase = "done" /\ req[r].err = ""))
          => LET R == {i \in VisibleIngredients(tx[r]) :
                          i.name = req[r].body.ingredients[k].name}
             IN  /\ Cardinality(R) = 1
                 /\ \A i \in R : i.ingredient_id = req[r].ingId[k]
    /\ \A l1, l2 \in BagToSet(recipe_ingredients) :
          LineJson(l1).name = LineJson(l2).name => l1.ingredient_id = l2.ingredient_id

\* Two creates with a line named Salt have committed; their lines reference the
\* same ingredient row.
C4_Witness ==
    \E r, q \in Requests :
        /\ r # q
        /\ \A p \in {r, q} : /\ req[p].op = "create" /\ req[p].phase = "done"
                             /\ Status(req[p]) = 201
                             /\ \E l \in LinesOf(recipe_ingredients, req[p].recipeId) :
                                    LineJson(l).name = "Salt" /\ l.ingredient_id = 1
        /\ req[r].recipeId # req[q].recipeId

\* C5: when a create ends with 201, get-by-id for the returned id yields the
\* recipe, and its set of (name, quantity, unit) triples equals the set of the
\* request's lines.
C5_ReadBackEqualsInput ==
    [][\A r \in Requests :
          (req[r].op = "create" /\ Finishes(r) /\ Status(req'[r]) = 201)
          => (/\ GetByIdRows(req[r].recipeId) # {}
              /\ SameTriples(ReadTriples(GetByIdRows(req[r].recipeId)),
                             InputTriples(req[r].body)))']_vars

\* C6: when an update with a non-empty list of lines L ends successfully and
\* the recipe exists, the recipe read back has exactly the triples of L: no
\* other line of the recipe remains.
C6_UpdateReplaces ==
    [][\A r \in Requests :
          (/\ req[r].op = "update" /\ Finishes(r) /\ Status(req'[r]) = 200
           /\ Len(req[r].body.ingredients) > 0
           /\ \E x \in recipes' : x.recipe_id = req[r].id)
          => SameTriples(ReadTriples(GetByIdRows(req[r].id)'),
                         InputTriples(req[r].body))]_vars

C8_UpdateOfAbsentIs404 ==
    [][\A r \in Requests :
          (req'[r].op = "update" /\ req'[r].rowCount = 0 /\ req'[r] # req[r])
          => /\ UNCHANGED tables
             /\ (req'[r].phase = "done" => Status(req'[r]) = 404)]_vars

\* C9: when the DELETE statement of a delete request is answered, the request
\* ends with 404 and an error body exactly when no recipe had the id; otherwise
\* it ends with 200 and the message, and no recipe row has the id any more.
C9_DeleteAnswers ==
    [][\A r \in Requests :
          (req[r].op = "delete" /\ Finishes(r) /\ req'[r].err = "")
          => LET existed == \E x \in recipes : x.recipe_id = req[r].id
                 answer == req'[r].res[1]
             IN  /\ Len(req'[r].res) = 1
                 /\ (answer.status = 404) <=> ~existed
                 /\ ~existed => /\ DOMAIN answer.body = {"error"}
                                /\ recipes' = recipes
                 /\ existed => /\ answer.status = 200
                               /\ answer.body = [message |-> "Recipe deleted successfully"]
                               /\ \A x \in recipes' : x.recipe_id # req[r].id]_vars

\* Both answers of delete have been given: 404 for an id without a recipe and
\* 200 for a recipe that existed.
C9_Witness ==
    \E r, q \in Requests :
        /\ req[r].op = "delete" /\ req[r].phase = "done" /\ Status(req[r]) = 404
        /\ req[q].op = "delete" /\ req[q].phase = "done" /\ Status(req[q]) = 200

C11_LinesReferenceRows ==
    \A l \in BagToSet(recipe_ingredients) :
        /\ \E x \in recipes : x.recipe_id = l.recipe_id
        /\ \E i \in ingredients : i.ingredient_id = l.ingredient_id

\* A join-row insert that named a recipe without a row has been refused, and a
\* delete has removed a recipe.
C11_Witness ==
    /\ \E r \in Requests :
          req[r].phase = "done" /\ req[r].err = "violates foreign key constraint"
    /\ \E q \in Requests :
          req[q].op = "delete" /\ req[q].phase = "done" /\ req[q].rowCount = 1

\* C12: when an update of an existing recipe ends successfully, the recipe's
\* updated_at is strictly greater than it was immediately before the update
\* committed.
C12_UpdatedAtIncreases ==
    [][\A r \in Requests :
          (/\ req[r].op = "update" /\ Finishes(r) /\ Status(req'[r]) = 200
           /\ req[r].rowCount = 1)
          => \A x \in recipes, y \in recipes' :
                (x.recipe_id = req[r].id /\ y.recipe_id = req[r].id)
                => y.updated_at > x.updated_at]_vars

\* C13: a step of get-all, get-by-id or get-by-category changes neither the
\* recipes (updated_at included), nor the ingredients, nor the ingredient
\* lines, nor the sequences, nor any open transaction, whatever it answers.
C13_ReadsChangeNothing ==
    [][\A r \in Requests :
          (req'[r].op \in {"getAll", "getById", "getByCategory"} /\ req'[r] # req[r])
          => /\ UNCHANGED tables
             /\ UNCHANGED <<recipe_id_seq, ingredient_id_seq, tx>>]_vars

\* A get-by-id has answered 404 while a write transaction of the other request
\* was open.
C13_Witness ==
    \E r, q \in Requests :
        /\ req[r].op = "getById" /\ req[r].phase = "done" /\ Status(req[r]) = 404
        /\ Open(q)

\* C14: a create or update releases the client it acquired exactly once and
\* holds none once it is over, on every exit path; a request whose
\* pool.connect() failed queues no statement (no ROLLBACK), begins no
\* transaction and releases nothing.
C14_ReleasedExactlyOnce ==
    \A r \in Requests :
        req[r].op \in {"create", "update"}
        => /\ req[r].releases \in {0, 1}
           /\ (req[r].client = "released") <=> (req[r].releases = 1)
           /\ req[r].phase = "done" => req[r].client # "held"
           /\ req[r].client = "none"
                 => /\ req[r].phase = "done" /\ req[r].err # ""
                    /\ req[r].queue = <<>>
                    /\ tx[r] = EmptyTx

\* A write has ended on the path of a failed ROLLBACK (no answer was written)
\* and its client is released.
C14_Witness ==
    \E r \in Requests :
        /\ req[r].op \in {"create", "update"} /\ req[r].phase = "done"
        /\ req[r].err # "" /\ Len(req[r].res) = 0
        /\ req[r].client = "released" /\ req[r].releases = 1

\* C15: when a statement of a write transaction has failed, the error is handed
\* to the caller only after ROLLBACK was answered, and the request ends with
\* the caller having received that error as a 500 answer.
C15_RollbackThenError ==
    \A r \in Requests :
        (req[r].op \in {"create", "update"} /\ req[r].client # "none" /\ req[r].err # "")
        => /\ Len(req[r].res) > 0
                 => /\ \A k \in DOMAIN req[r].queue : req[r].queue[k].kind # "ROLLBACK"
                    /\ tx[r] = EmptyTx
           /\ req[r].phase = "done"
                 => /\ Len(req[r].res) > 0
                    /\ req[r].res[1].status = 500
                    /\ req[r].res[1].body = [error |-> req[r].err]

\* A body with every required field: title and instructions not empty, each
\* line an object with a name, a quantity above 0 and a unit.
ValidBody(b) ==
    /\ b.title # "" /\ b.instructions # ""
    /\ \A k \in DOMAIN b.ingredients :
          LET l == b.ingredients[k] IN
          /\ ~IsNullLine(l)
          /\ l.name # "" /\ l.unit # "" /\ l.quantity > 0

\* C16: no step of a create or update whose body has an invalid field changes
\* a table; the request acquires no client, begins no transaction and ends
\* with the answer 400.
C16_InvalidIs400 ==
    [][\A r \in Requests :
          (/\ req'[r].op \in {"create", "update"}
           /\ ~ValidBody(req'[r].body)
           /\ req'[r] # req[r])
          => /\ UNCHANGED tables
             /\ req'[r].client = "none"
             /\ tx'[r] = EmptyTx
             /\ (req'[r].phase = "done" => Status(req'[r]) = 400)]_vars

\* The statements of a write that read or change data.
DataKinds ==
    {"INSERT_RECIPE", "UPDATE_RECIPE", "DELETE_LINES", "INSERT_INGREDIENT",
     "SELECT_INGREDIENT", "INSERT_RECIPE_INGREDIENT"}

\* C17: a data statement of a create or update executes only while the
\* request's transaction is open on the client the request holds: after BEGIN,
\* before COMMIT or ROLLBACK was answered and before the client was released.
C17_StatementsInsideTransaction ==
    [][\A r \in Requests :
          (/\ req[r].op \in {"create", "update"}
           /\ Len(req[r].queue) > 0
           /\ req'[r] # req[r])
          => (Head(req[r].queue).kind \in DataKinds
                 => /\ Open(r)
                    /\ req[r].client = "held"
                    /\ req[r].phase # "done")]_vars

\* C19: once the fallback lookup of a line has found no row, no step of the
\* request changes the ingredient lines, ROLLBACK is issued, and the request
\* ends with its transaction gone and the answer 500.
C19_LookupMissAborts ==
    [][\A r \in Requests :
          (/\ req'[r].op \in {"create", "update"}
           /\ req'[r].err = "TypeError"
           /\ req'[r] # req[r])
          => /\ recipe_ingredients' = recipe_ingredients
             /\ req'[r].phase \in {"rollback", "done"}
             /\ (req'[r].phase = "done"
                    => tx'[r] = EmptyTx /\ Status(req'[r]) = 500)]_vars

\* C18: COMMIT is issued only after every line's resolution and join-row insert
\* have completed: while COMMIT is queued on the client, every line of the
\* request is done, no other statement of the request is queued, and the
\* transaction holds one inserted join row per line of the request.
C18_CommitAfterAllLines ==
    \A r \in Requests :
        (\E i \in DOMAIN req[r].queue : req[r].queue[i].kind = "COMMIT")
        => /\ \A k \in DOMAIN req[r].task : req[r].task[k] = "ok"
           /\ req[r].queue = <<Stmt("COMMIT", 0)>>
           /\ tx[r].state = "active"
           /\ BagCardinality(tx[r].insLines) = Len(req[r].body.ingredients)

\* COMMIT of a request with two lines is queued, both join rows are inserted.
C18_Witness ==
    \E r \in Requests :
        /\ Ready(r, "COMMIT")
        /\ Len(req[r].body.ingredients) = 2
        /\ BagCardinality(tx[r].insLines) = 2

\* C20: when two transactions that overlap insert the same new ingredient name,
\* exactly one insert takes effect; the other's lookup returns the winner's row
\* after the winner committed, and the lines of both reference the same
\* ingredient id.  Stated for any two writes that ended successfully with a
\* line of the same name: the two lines carry one id, at most one of the two
\* requests inserted the row, and the committed catalog holds exactly that row
\* for the name.
C20_ConcurrentInsertsAgree ==
    \A r, q \in Requests :
        (/\ r # q
         /\ \A p \in {r, q} : /\ req[p].op \in {"create", "update"}
                              /\ req[p].phase = "done" /\ req[p].err = "")
        => \A k \in DOMAIN req[r].ingId, j \in DOMAIN req[q].ingId :
              req[r].body.ingredients[k].name = req[q].body.ingredients[j].name
              => /\ req[r].ingId[k] = req[q].ingId[j]
                 /\ ~(req[r].ingId[k] \in req[r].inserted
                        /\ req[q].ingId[j] \in req[q].inserted)
                 /\ {i \in ingredients : i.name = req[r].body.ingredients[k].name}
                        = {IngredientRow(req[r].ingId[k], req[r].body.ingredients[k].name)}

\* Two creates overlapped (q inserted its recipe row before r did) and both
\* committed; r inserted the row of a new name and q's line of that name, whose
\* own insert took no effect, references r's row.
C20_Witness ==
    \E r, q \in Requests :
        /\ r # q
        /\ \A p \in {r, q} : req[p].op = "create" /\ req[p].phase = "done"
                              /\ Status(req[p]) = 201
        /\ req[q].recipeId < req[r].recipeId
        /\ \E k \in DOMAIN req[r].ingId, j \in DOMAIN req[q].ingId :
              /\ req[r].body.ingredients[k].name = req[q].body.ingredients[j].name
              /\ \A i \in ingredients :
                    i.name = req[r].body.ingredients[k].name => i.ingredient_id >= 2
              /\ req[r].ingId[k] \in req[r].inserted
              /\ req[q].ingId[j] = req[r].ingId[k]
              /\ req[q].ingId[j] \notin req[q].inserted

\* C21: a get-by-id whose query was answered sends 404 exactly when no recipe
\* row has the id, and otherwise 200 with that recipe's row and the aggregate
\* of its ingredient lines (one object per line, with the line's quantity and
\* unit and its ingredient's name).
C21_GetByIdAnswers ==
    [][\A r \in Requests :
          (req'[r] # req[r] /\ req'[r].op = "getById" /\ req'[r].err = "")
          => LET id == req'[r].id
                 X == {x \in recipes : x.recipe_id = id}
                 S == LinesOf(recipe_ingredients, id)
                 b == req'[r].res[1].body
             IN  /\ Len(req'[r].res) = 1
                 /\ Status(req'[r]) \in {200, 404}
                 /\ Status(req'[r]) = 404 <=> X = {}
                 /\ Status(req'[r]) = 200 =>
                       /\ \E x \in X :
                             /\ b.recipe_id = id /\ b.title = x.title
                             /\ b.instructions = x.instructions
                             /\ b.image_url = x.image_url
                             /\ b.category_id = x.category_id
                             /\ b.created_at = x.created_at
                             /\ b.updated_at = x.updated_at
                       /\ S # {} =>
                             /\ BagCardinality(b.ingredients) = Copies(recipe_ingredients, S)
                             /\ \A l \in S : BagIn(LineJson(l), b.ingredients)]_vars

\* A get-by-id has answered 200 with a recipe a create committed and its two
\* lines, while the store holds another recipe.
C21_Witness ==
    \E r \in Requests :
        /\ req[r].op = "getById" /\ Status(req[r]) = 200
        /\ req[r].res[1].body.recipe_id = 2
        /\ BagCardinality(req[r].res[1].body.ingredients) = 2
        /\ \E x \in recipes : x.recipe_id = 1

\* The recipe ids in the array a get-by-category answered.
AnsweredIds(h) == {j.recipe_id : j \in h.res[1].body}

\* C22: a get-by-category whose query was answered sends 404 when no recipe row
\* has the category id, and otherwise 200 with an array that holds the recipes
\* of that category and no recipe of another category.
C22_GetByCategoryAnswers ==
    [][\A r \in Requests :
          (req'[r] # req[r] /\ req'[r].op = "getByCategory" /\ req'[r].err = "")
          => LET X == {x \in recipes : x.category_id = req'[r].id} IN
             /\ Status(req'[r]) = 404 <=> X = {}
             /\ X # {} => /\ Status(req'[r]) = 200
                          /\ AnsweredIds(req'[r]) = {x.recipe_id : x \in X}]_vars

\* C22, amended: a get-by-category whose query was answered sends 404 when no
\* recipe of the category has an ingredient line, and otherwise 200 with an
\* array that holds exactly the recipes of that category that have at least one
\* ingredient line, each with the aggregate of its lines, and no recipe of
\* another category.
C22_GetByCategoryWithLines ==
    [][\A r \in Requests :
          (req'[r] # req[r] /\ req'[r].op = "getByCategory" /\ req'[r].err = "")
          => LET X == {x \in recipes : /\ x.category_id = req'[r].id
                                       /\ LinesOf(recipe_ingredients, x.recipe_id) # {}}
             IN
             /\ Len(req'[r].res) = 1
             /\ Status(req'[r]) = 404 <=> X = {}
             /\ X # {} =>
                   /\ Status(req'[r]) = 200
                   /\ AnsweredIds(req'[r]) = {x.recipe_id : x \in X}
                   /\ \A j \in req'[r].res[1].body :
                         /\ j.category_id = req'[r].id
                         /\ BagCardinality(j.ingredients) =
                               Copies(recipe_ingredients,
                                      LinesOf(recipe_ingredients, j.recipe_id))]_vars

\* A get-by-category has answered 200 with a recipe of the category while the
\* store holds a recipe of that category without lines, which the array omits.
C22_Witness ==
    \E r \in Requests :
        /\ req[r].op = "getByCategory" /\ Status(req[r]) = 200
        /\ \E x \in recipes : /\ x.category_id = req[r].id
                              /\ LinesOf(recipe_ingredients, x.recipe_id) = {}
                              /\ x.recipe_id \notin AnsweredIds(req[r])

\* The recipe objects a get-all or a get-by-id answered with status 200.
AnsweredRecipes(h) ==
    IF Status(h) # 200 THEN {}
    ELSE IF h.op = "getAll" THEN h.res[1].body
    ELSE IF h.op = "getById" THEN {h.res[1].body}
    ELSE {}

\* C23: get-all and get-by-id return a recipe that has no ingredient line with
\* an ingredients value that is the empty array: it is not null and holds no
\* entry whose name, quantity and unit are null.
C23_NoLinesIsEmptyArray ==
    [][\A r \in Requests :
          req'[r] # req[r]
          => \A j \in AnsweredRecipes(req'[r]) :
                LinesOf(recipe_ingredients, j.recipe_id) = {}
                => /\ j.ingredients = EmptyBag
                   /\ ~BagIn([name |-> Null, quantity |-> Null, unit |-> Null],
                             j.ingredients)]_vars

C25_GenericServerError ==
    \A r \in Requests :
        (req[r].phase = "done" /\ req[r].err # "")
        => /\ Len(req[r].res) >= 1
           /\ req[r].res[1].status = 500
           /\ req[r].res[1].body = [error |-> "Internal Server Error"]
           /\ req[r].res[1].body.error # req[r].err

\* C26: for each input line of a create or update exactly one ingredient-line
\* row is inserted: the step that completes line k adds to the transaction one
\* row, which carries the target recipe, the id of the one ingredient row of the
\* line's name (never an absent id) and the line's quantity and unit, whether
\* the name was new or already present; and no other step of the request adds
\* an ingredient-line row.
C26_OneLineRowPerLine ==
    [][\A r \in Requests :
          /\ \A k \in DOMAIN req[r].task :
                (/\ req'[r].op = req[r].op /\ k \in DOMAIN req'[r].task
                 /\ req[r].task[k] = "join" /\ req'[r].task[k] = "ok")
                => LET l == req[r].body.ingredients[k]
                       I == {i \in VisibleIngredients(tx[r]) : i.name = l.name}
                   IN  /\ Cardinality(I) = 1
                       /\ \A i \in I :
                             /\ i.ingredient_id = req[r].ingId[k]
                             /\ i.ingredient_id >= 1
                             /\ tx'[r].insLines = tx[r].insLines (+)
                                    SetToBag({LineRow(TargetRecipe(req[r]), i.ingredient_id,
                                                      l.quantity, l.unit)})
          /\ (tx'[r].insLines # tx[r].insLines /\ tx'[r].insLines # EmptyBag)
                => /\ BagCardinality(tx'[r].insLines) = BagCardinality(tx[r].insLines) + 1
                   /\ \E k \in DOMAIN req[r].task :
                         req[r].task[k] = "join" /\ req'[r].task[k] = "ok"
          /\ (Finishes(r) /\ req'[r].err = "" /\ req[r].op \in {"create", "update"})
                => BagCardinality(tx[r].insLines) = Len(req[r].body.ingredients)]_vars

\* A write with two lines of one new name has committed: the first line's insert
\* returned the new row, the second's was a conflict followed by the lookup, and
\* both lines carry that row's id.
C26_Witness ==
    \E r \in Requests :
        /\ req[r].op \in {"create", "update"} /\ req[r].phase = "done" /\ req[r].err = ""
        /\ Len(req[r].ingId) = 2
        /\ req[r].ingId[1] = req[r].ingId[2]
        /\ req[r].ingId[1] \in req[r].inserted
        /\ Cardinality(LinesOf(recipe_ingredients, TargetRecipe(req[r]))) >= 2

\* C27: ingredient rows are only ever added: every step of a create, an update,
\* a delete or a read of recipes keeps each committed ingredient row with its
\* id and name, and a row it adds has an id and a name no committed row has.
C27_IngredientsOnlyGrow ==
    [][/\ ingredients \subseteq ingredients'
       /\ \A i \in ingredients' \ ingredients :
             \A j \in ingredients : j.ingredient_id # i.ingredient_id /\ j.name # i.name]_vars

\* A delete has removed a recipe a create had committed with new ingredient
\* names: the ingredient rows the create added are still there, used by no line.
C27_Witness ==
    \E r \in Requests :
        /\ req[r].op = "delete" /\ req[r].phase = "done" /\ req[r].rowCount = 1
        /\ \E i \in ingredients :
              /\ i.ingredient_id >= 2
              /\ \A l \in BagToSet(recipe_ingredients) : l.ingredient_id # i.ingredient_id

\* C28: a get-all and a get-by-id return a recipe that has no ingredient line
\* (outer join); a get-by-category leaves it out (inner join), and answers 404
\* for a category whose recipes all have no line.
C28_OuterAndInnerJoin ==
    [][\A r \in Requests :
          (req'[r] # req[r] /\ req'[r].err = "")
          => LET Z == {x \in recipes : LinesOf(recipe_ingredients, x.recipe_id) = {}} IN
             /\ req'[r].op = "getAll" =>
                   /\ Status(req'[r]) = 200
                   /\ \A x \in Z : \E j \in req'[r].res[1].body : j.recipe_id = x.recipe_id
             /\ (req'[r].op = "getById" /\ \E x \in Z : x.recipe_id = req'[r].id) =>
                   /\ Status(req'[r]) = 200
                   /\ req'[r].res[1].body.recipe_id = req'[r].id
             /\ req'[r].op = "getByCategory" =>
                   /\ Status(req'[r]) = 200 =>
                         \A x \in Z : x.recipe_id \notin AnsweredIds(req'[r])
                   /\ (\A x \in recipes : x.category_id = req'[r].id => x \in Z) =>
                         Status(req'[r]) = 404]_vars

\* A get-by-category has answered 404 for a category of which the store holds a
\* recipe, which has no line.
C28_Witness ==
    \E r \in Requests :
        /\ req[r].op = "getByCategory" /\ Status(req[r]) = 404
        /\ \E x \in recipes : /\ x.category_id = req[r].id
                              /\ LinesOf(recipe_ingredients, x.recipe_id) = {}

\* C29: each request is answered at most once: on every path through a handler,
\* the error paths that forward the error to the application's error handler
\* included, at most one response is written.
C29_AtMostOneResponse ==
    \A r \in Requests : Len(req[r].res) <= 1

\* ------------------------------------------------------------------ liveness
\* The storage client answers the query at the head of r's queue.
Answers(r) ==
    \/ ExecBegin(r) \/ ExecInsertRecipe(r) \/ ExecUpdateRecipe(r) \/ ExecDeleteLines(r)
    \/ ExecInsertIngredient(r) \/ DeadlockInsertIngredient(r) \/ ExecSelectIngredient(r)
    \/ ExecInsertRecipeIngredient(r) \/ ExecCommit(r) \/ ExecRollback(r)
    \/ ExecDeleteRecipe(r)

\* The service with a storage client that eventually answers every query with
\* a result or an error.
SpecLive == Init /\ [][Next]_vars /\ \A r \in Requests : WF_vars(Answers(r))

\* C30: when the storage client eventually answers every query, every request
\* that has arrived eventually receives a response.
C30_EventuallyAnswered ==
    \A r \in Requests : (req[r].op # "none") ~> (Len(req[r].res) >= 1)

\* C31: concurrent write transactions never wait on each other in a cycle: no
\* two requests each wait, with their INSERT INTO ingredients, for the other's
\* uncommitted row, and no request is ended by the store's deadlock error.
C31_NoWaitCycle ==
    \A r, q \in Requests :
        /\ ~(WaitsFor(r, q) /\ WaitsFor(q, r))
        /\ req[r].err # "deadlock detected"

RECURSIVE RequestLines(_, _)
\* The ingredient-line rows of the first k input lines of request h, as a bag.
RequestLines(h, k) ==
    IF k = 0 THEN EmptyBag
    ELSE RequestLines(h, k - 1) (+)
         SetToBag({LineRow(TargetRecipe(h), h.ingId[k],
                           h.body.ingredients[k].quantity, h.body.ingredients[k].unit)})

\* The recipe h wrote to carries h's title, instructions and category and
\* exactly the lines of h's input.
RecipeIsFrom(h) ==
    /\ \E x \in recipes : /\ x.recipe_id = TargetRecipe(h)
                          /\ x.title = h.body.title
                          /\ x.instructions = h.body.instructions
                          /\ x.category_id = h.body.categoryId
    /\ LinesBagOf(recipe_ingredients, TargetRecipe(h))
          = RequestLines(h, Len(h.body.ingredients))

\* Requests r and q are two updates of one recipe, whose UPDATE statements both
\* matched the row, and both have committed.
BothUpdated(r, q) ==
    /\ r # q
    /\ req[r].id = req[q].id
    /\ \A p \in {r, q} : /\ req[p].op = "update" /\ req[p].phase = "done"
                         /\ Status(req[p]) = 200 /\ req[p].rowCount = 1

SeenRecipeIds ==
    {x.recipe_id : x \in recipes \cup recipes'}
        \cup {l.recipe_id : l \in BagToSet(recipe_ingredients) \cup BagToSet(recipe_ingredients')}

\* C33: create, update and delete of a recipe R leave every other recipe
\* untouched: a step changes the committed row (updated-at included) or the
\* committed ingredient lines of a recipe S only if it is a step of a create,
\* update or delete whose recipe is S; this holds for steps that commit and for
\* steps of requests that roll back.
C33_OtherRecipesUntouched ==
    [][\A id \in SeenRecipeIds :
          (\/ {x \in recipes : x.recipe_id = id} # {x \in recipes' : x.recipe_id = id}
           \/ LinesBagOf(recipe_ingredients, id) # LinesBagOf(recipe_ingredients', id))
          => \E r \in Requests :
                /\ req'[r] # req[r]
                /\ req'[r].op \in {"create", "update", "delete"}
                /\ TargetRecipe(req'[r]) = id]_vars

\* An update of recipe 1 with a non-empty list has committed while the store
\* holds recipe 2 with its ingredient lines.
C33_Witness ==
    \E r \in Requests :
        /\ req[r].op = "update" /\ req[r].phase = "done" /\ Status(req[r]) = 200
        /\ req[r].id = 1 /\ req[r].rowCount = 1
        /\ Len(req[r].body.ingredients) > 0
        /\ \E x \in recipes : x.recipe_id = 2
        /\ LinesOf(recipe_ingredients, 2) # {}

\* ------------------------------------------------------------------ tags
\* Path parameters :id and names of the tag requests; the store starts with the
\* tags 1 and 2.
TagIds == {1, 2, 3}

TagNames == {"vegan", "mild"}

TagRow(id, n) == [tag_id |-> id, name |-> n]

\* SELECT * FROM tags WHERE tag_id = $1
SelectTag(id) == {t \in tags : t.tag_id = id}

\* TagsAfterUpdate of UPDATE tags SET name = $1 without WHERE tag_id = $2.
TagsAfterUpdateAll(id, n) == {TagRow(t.tag_id, n) : t \in tags}

\* UPDATE tags SET name = $1 WHERE tag_id = $2: the rows of tags afterwards.
TagsAfterUpdate(id, n) ==
    {IF t.tag_id = id THEN TagRow(t.tag_id, n) ELSE t : t \in tags}

\* DELETE FROM tags WHERE tag_id = $1: the rows of tags afterwards.
TagsAfterDelete(id) == {t \in tags : t.tag_id # id}

\* A tag request as its handler receives it; the handler runs to its end in
\* one step, around its single pool.query.
TagRequest(op, id, n) ==
    [NoReq EXCEPT !.op = op, !.id = id, !.body = [name |-> n], !.phase = "done"]

\* catch (error) { next(error); }
CatchTag(h, m) == ErrorHandler([h EXCEPT !.err = m])

\* if (!tag) return res.status(404).json({ error: 'Tag not found' }); res.json(body)
TagAnswer(h, rows, body) ==
    IF rows = {} THEN Send(h, 404, [error |-> "Tag not found"]) ELSE Send(h, 200, body)

\* GET /tags
GetTags(r) ==
    /\ Arrives(r)
    /\ \E fault \in FaultChoices :
        LET h == TagRequest("getTags", 0, "") IN
        /\ faults' = IF fault THEN faults + 1 ELSE faults
        /\ req' = [req EXCEPT ![r] =
               IF fault THEN CatchTag(h, "storage error") ELSE Send(h, 200, tags)]
    /\ UNCHANGED <<tables, recipe_id_seq, ingredient_id_seq, now, tx, tagvars>>

\* POST /tags
CreateTag(r, n) ==
    /\ Arrives(r)
    /\ \E fault \in FaultChoices :
        LET h == TagRequest("createTag", 0, n) IN
        /\ faults' = IF fault THEN faults + 1 ELSE faults
        /\ req' = [req EXCEPT ![r] =
               IF fault THEN CatchTag(h, "storage error")
               ELSE Send(h, 201, TagRow(tag_id_seq, n))]
        /\ tags' = IF fault THEN tags ELSE tags \cup {TagRow(tag_id_seq, n)}
        /\ tag_id_seq' = IF fault THEN tag_id_seq ELSE tag_id_seq + 1
    /\ UNCHANGED <<tables, recipe_id_seq, ingredient_id_seq, now, tx>>

\* GET /tags/:id
GetTag(r, id) ==
    /\ Arrives(r)
    /\ \E fault \in FaultChoices :
        LET h == TagRequest("getTag", id, "")
            rows == SelectTag(id)
        IN
        /\ faults' = IF fault THEN faults + 1 ELSE faults
        /\ req' = [req EXCEPT ![r] =
               IF fault THEN CatchTag(h, "storage error")
               ELSE TagAnswer(h, rows, IF rows = {} THEN Null ELSE CHOOSE t \in rows : TRUE)]
    /\ UNCHANGED <<tables, recipe_id_seq, ingredient_id_seq, now, tx, tagvars>>

\* PUT /tags/:id
UpdateTag(r, id, n) ==
    /\ Arrives(r)
    /\ \E fault \in FaultChoices :
        LET h == TagRequest("updateTag", id, n)
            rows == {TagRow(t.tag_id, n) : t \in SelectTag(id)}
        IN
        /\ faults' = IF fault THEN faults + 1 ELSE faults
        /\ req' = [req EXCEPT ![r] =
               IF fault THEN CatchTag(h, "storage error")
               ELSE TagAnswer(h, rows, IF rows = {} THEN Null ELSE CHOOSE t \in rows : TRUE)]
        /\ tags' = IF fault THEN tags ELSE TagsAfterUpdate(id, n)
    /\ UNCHANGED <<tables, recipe_id_seq, ingredient_id_seq, now, tx, tag_id_seq>>

\* DELETE /tags/:id
DeleteTag(r, id) ==
    /\ Arrives(r)
    /\ \E fault \in FaultChoices :
        LET h == TagRequest("deleteTag", id, "") IN
        /\ faults' = IF fault THEN faults + 1 ELSE faults
        /\ req' = [req EXCEPT ![r] =
               IF fault THEN CatchTag(h, "storage error")
               ELSE TagAnswer(h, SelectTag(id), [message |-> "Tag deleted successfully"])]
        /\ tags' = IF fault THEN tags ELSE TagsAfterDelete(id)
    /\ UNCHANGED <<tables, recipe_id_seq, ingredient_id_seq, now, tx, tag_id_seq>>

NextTags ==
    \/ \E r \in Requests : GetTags(r)
    \/ \E r \in Requests, n \in TagNames : CreateTag(r, n)
    \/ \E r \in Requests, id \in TagIds : GetTag(r, id)
    \/ \E r \in Requests, id \in TagIds, n \in TagNames : UpdateTag(r, id, n)
    \/ \E r \in Requests, id \in TagIds : DeleteTag(r, id)

\* The tags router of the application.
SpecTags == Init /\ [][NextTags]_vars

\* C34: a fetch, update or delete of a tag whose id matches no tag row answers
\* 404 with an error field and leaves the tags as they are; on an id that
\* matches a row, update changes the name of that tag only and delete removes
\* that tag only (and a fetch returns it), every other tag staying as it is.
C34_TagNotFoundAndFrame ==
    [][\A r \in Requests :
          (/\ req'[r] # req[r]
           /\ req'[r].op \in {"getTag", "updateTag", "deleteTag"}
           /\ req'[r].err = "")
          => LET id == req'[r].id
                 old == {t \in tags : t.tag_id = id}
                 rest == {t \in tags : t.tag_id # id}
             IN  /\ Len(req'[r].res) = 1
                 /\ {t \in tags' : t.tag_id # id} = rest
                 /\ IF old = {}
                    THEN /\ Status(req'[r]) = 404
                         /\ req'[r].res[1].body.error = "Tag not found"
                         /\ tags' = tags
                    ELSE /\ Status(req'[r]) = 200
                         /\ req'[r].op = "getTag" =>
                               tags' = tags /\ req'[r].res[1].body \in old
                         /\ req'[r].op = "updateTag" =>
                               tags' = rest \cup {TagRow(id, req'[r].body.name)}
                         /\ req'[r].op = "deleteTag" => tags' = rest]_vars

\* After an update renamed tag 1, a delete of id 3, which no tag has, was
\* answered 404; tag 2 is as it was.
C34_Witness ==
    \E r \in Requests :
        /\ req[r].op = "deleteTag" /\ req[r].id = 3 /\ Status(req[r]) = 404
        /\ tags = {TagRow(1, "mild"), TagRow(2, "spicy")}

====
